---- MODULE Spec2Model ----
(***************************************************************************)
(* A model of the canopus CoAP server (package canopus):                   *)
(*   - CoapServer.handleMessage, run as one goroutine per datagram         *)
(*     (serveServer: "go s.handleMessage(...)"), with the shared maps      *)
(*     messageIds and observations accessed without any lock;              *)
(*   - CoapServer.handleMessageIdPurge, the ticker goroutine;              *)
(*   - CoapServer.NotifyChange and the "go c.SendTo(req, r.Addr)"          *)
(*     goroutines it starts;                                               *)
(*   - PriorityQueue and DefaultQueue of queue.go.                         *)
(*                                                                         *)
(* A goroutine is cut into steps at its accesses to shared memory: each    *)
(* step below is one such access together with the goroutine-local code    *)
(* around it. A map access is one step. A slice is modelled by its value   *)
(* (a sequence of pointers); the sharing of backing arrays between the     *)
(* slices that append builds is not modelled.                              *)
(***************************************************************************)
EXTENDS Integers, Sequences, FiniteSets, TLC

\* ------------------------------------------------------------------ bounds
\* Number of datagrams the receive loop hands to handleMessage goroutines.
MaxTasks == 2
\* Number of NotifyChange calls the application makes.
MaxNotify == 2
\* Number of items a PriorityQueue holds.
MaxQueue == 2
\* Number of datagrams handed to goroutines where only observe requests
\* arrive.
MaxObservers == 3

\* ------------------------------------------------------------ input domains
Peers == {"A", "B"}
MsgIds == {1, 2}
\* The goroutines serveServer may start; each specification says how many
\* of them it starts.
Tasks == 1..(IF MaxObservers > MaxTasks THEN MaxObservers ELSE MaxTasks)
Notifiers == 1..MaxNotify

\* The token a peer puts in its requests (chosen by the requester).
TokenOf(addr) == IF addr = "A" THEN "tA" ELSE "tB"

\* The route table, fixed before serveServer starts (CoapServer.add), each
\* route with what its handler returns: "temp" acknowledges automatically
\* and answers with a message; "log" does not acknowledge, and answers
\* with NilResponse, or (to a request with an Observe value) with a message
\* that ValidateMessage rejects.
Routes ==
    << [Path |-> "temp", Method |-> "GET", MediaTypes |-> {"json"}, AutoAck |-> TRUE],
       [Path |-> "log",  Method |-> "GET", MediaTypes |-> {},       AutoAck |-> FALSE] >>

Resources == {Routes[i].Path : i \in 1..Len(Routes)}

NoRoute == [Path |-> "", Method |-> "", MediaTypes |-> {}, AutoAck |-> FALSE]

\* An inbound message as BytesToMessage returns it, with the decode error.
\*   Observe: "absent" (no option), "empty" (option with nil value), "value"
\*   Proxy:   "none" or "coap" (IsProxyRequest, IsCoapUri)
\*   Err:     "nil" or "critical" (ERR_UNKNOWN_CRITICAL_OPTION)
Msg(type, code, mid, path, cf, observe, proxy, err) ==
    [MessageType |-> type, Code |-> code, MessageId |-> mid, Path |-> path,
     ContentFormat |-> cf, Observe |-> observe, Proxy |-> proxy, Err |-> err]

From(addr, msg) == [addr |-> addr, msg |-> msg]

\* Requests that match a route, with and without an Observe option.
RoutedDatagrams ==
    { From(a, Msg("CON", "GET", m, "temp", "none", ob, "none", "nil")) :
        a \in Peers, m \in MsgIds, ob \in {"absent", "empty"} }
    \cup
    { From("A", Msg("NON", "GET", 1, "temp", "none", ob, "none", "nil")) :
        ob \in {"absent", "empty"} }
    \cup
    { From("A", Msg("CON", "GET", 2, "log", "none", "empty", "none", "nil")),
      From("A", Msg("CON", "GET", 1, "log", "none", "value", "none", "nil")) }

\* Requests handleMessage answers or drops before the duplicate check: no
\* route, wrong method, unsupported content format, unsupported method
\* code, unknown critical option, proxy request.
UnroutedDatagrams ==
    { From("A", Msg("CON", "GET", 1, "none", "none", "absent", "none", "nil")),
      From("A", Msg("CON", "PUT", 1, "temp", "none", "absent", "none", "nil")),
      From("A", Msg("CON", "GET", 1, "temp", "xml", "absent", "none", "nil")),
      From("A", Msg("CON", "FETCH", 1, "temp", "none", "absent", "none", "nil")),
      From("A", Msg("CON", "GET", 1, "temp", "none", "absent", "none", "critical")),
      From("A", Msg("NON", "GET", 1, "temp", "none", "absent", "none", "critical")),
      From("A", Msg("CON", "GET", 1, "temp", "none", "absent", "coap", "nil")) }

\* Acknowledgements and Resets.
ReplyDatagrams ==
    { From("A", Msg("ACK", "Content", 1, "temp", "none", ob, "none", "nil")) :
        ob \in {"absent", "value"} }
    \cup
    { From("A", Msg("RST", "Empty", m, "", "none", "absent", "none", "nil")) : m \in MsgIds }

\* The datagrams the receive loop may read: one family per branch of
\* handleMessage, the fields a branch does not read held fixed.
Datagrams == RoutedDatagrams \cup UnroutedDatagrams \cup ReplyDatagrams

\* ------------------------------------------------------------------- state
VARIABLES
    messageIds,     \* CoapServer.messageIds: message ID -> age class of its time stamp
    observations,   \* CoapServer.observations: resource -> sequence of *Observation
    heap,           \* the Observation objects the pointers refer to
    tasks,          \* the handleMessage goroutines
    notifiers,      \* the NotifyChange calls
    sending,        \* the "go c.SendTo(req, r.Addr)" goroutines not yet run
    notified,       \* the notifications those goroutines have put on the wire
    pq,             \* a PriorityQueue
    panicked,       \* the process has died of a runtime panic
    closed          \* s.localConn has been closed

vars == << messageIds, observations, heap, tasks, notifiers, sending, notified, pq, panicked,
          closed >>

NoMsg == Msg("", "", 0, "", "", "", "", "")
NoObservation == [Addr |-> "", Token |-> "", Resource |-> "", NotifyCount |-> 0]

\* An outbound message. Token "" is a token never set.
Out(type, code, mid, token, path, cf) ==
    [MessageType |-> type, Code |-> code, MessageId |-> mid, Token |-> token,
     Path |-> path, ContentFormat |-> cf]

\* The steps of one handleMessage goroutine, in order: messages sent
\* (SendMessageTo), events fired, the route handler called.
SendStep(m)     == [kind |-> "send", msg |-> m]
EventStep(name) == [kind |-> name, msg |-> Out("", "", 0, "", "", "")]

IdleTask == [pc |-> "idle", msg |-> NoMsg, addr |-> "", route |-> NoRoute,
             obsRead |-> << >>, trace |-> << >>]

\* An Item of the PriorityQueue: value is the message ID of its request.
Item(mid, priority, index, retries) ==
    [value |-> mid, priority |-> priority, index |-> index, retries |-> retries]
Priorities == {1, 2}

NoRequest == [MessageType |-> "", MessageId |-> 0, Token |-> "", Uri |-> "", Observe |-> 0]
IdleNotifier == [pc |-> "idle", resource |-> "", req |-> NoRequest, t |-> << >>,
                 i |-> 0, tmp |-> 0, seqs |-> << >>]

Init ==
    /\ messageIds = << >>                               \* make(map[uint16]time.Time)
    /\ observations = [r \in {} |-> << >>]              \* make(map[string][]*Observation)
    /\ heap = [o \in Tasks |-> NoObservation]
    /\ tasks = [t \in Tasks |-> IdleTask]
    /\ notifiers = [n \in Notifiers |-> IdleNotifier]
    /\ sending = {}
    /\ notified = {}
    /\ pq = << >>
    /\ panicked = FALSE
    /\ closed = FALSE

\* --------------------------------------------------------- pure functions
\* msg.Code is GET, POST, PUT or DELETE (handleMessage's own test).
SupportedMethod(code) == code \in {"GET", "POST", "PUT", "DELETE"}

\* MatchingRoute: the routes in order, filtered by path, then method, then
\* content format; the first distinguishing error.
PathMatches   == [p \in {"temp", "log", "none", ""} |-> {i \in 1..Len(Routes) : Routes[i].Path = p}]
MatchingRoute(path, method, cf) ==
    LET byPath   == PathMatches[path]
        byMethod == {i \in byPath : Routes[i].Method = method}
        byFormat == {i \in byMethod : cf = "none" \/ Routes[i].MediaTypes = {} \/ cf \in Routes[i].MediaTypes}
        first(S) == CHOOSE i \in S : \A j \in S : i <= j
    IN  IF byPath = {} THEN [err |-> "ERR_NO_MATCHING_ROUTE", route |-> NoRoute]
        ELSE IF byMethod = {} THEN [err |-> "ERR_NO_MATCHING_METHOD", route |-> NoRoute]
        ELSE IF byFormat = {} THEN [err |-> "ERR_UNSUPPORTED_CONTENT_FORMAT", route |-> NoRoute]
        ELSE [err |-> "nil", route |-> Routes[first(byFormat)]]

\* RouteErrorResponse without CloneOptions.
RouteErrorResponse_NoClone(err, msg, token) ==
    IF err = "ERR_NO_MATCHING_ROUTE"
    THEN Out("ACK", "NotFound", msg.MessageId, token, "", "none")
    ELSE IF err = "ERR_NO_MATCHING_METHOD"
    THEN Out("ACK", "MethodNotAllowed", msg.MessageId, "", "", "none")
    ELSE Out("ACK", "UnsupportedContentFormat", msg.MessageId, "", "", "none")

\* The response handleMessage builds for a route error. Only the not-found
\* response is given the request's token.
RouteErrorResponse(err, msg, token) ==
    IF err = "ERR_NO_MATCHING_ROUTE"
    THEN Out("ACK", "NotFound", msg.MessageId, token, msg.Path, msg.ContentFormat)
    ELSE IF err = "ERR_NO_MATCHING_METHOD"
    THEN Out("ACK", "MethodNotAllowed", msg.MessageId, "", msg.Path, msg.ContentFormat)
    ELSE Out("ACK", "UnsupportedContentFormat", msg.MessageId, "", msg.Path, msg.ContentFormat)

\* What handleMessage does with a message before it reaches the duplicate
\* check: the steps it takes and whether it goes on ("dedup") or returns.
Classify(msg, addr) ==
    LET m == MatchingRoute(msg.Path, msg.Code, msg.ContentFormat) IN
    IF msg.MessageType = "ACK"
    THEN [pc |-> "done", route |-> NoRoute,
          trace |-> IF msg.Observe # "absent" THEN << EventStep("notify") >> ELSE << >>]
    ELSE IF msg.MessageType = "RST"
    THEN [pc |-> "done", route |-> NoRoute, trace |-> << >>]
    ELSE IF ~SupportedMethod(msg.Code)
    THEN [pc |-> "done", route |-> NoRoute,
          trace |-> << SendStep(Out("ACK", "NotImplemented", msg.MessageId, "", msg.Path, msg.ContentFormat)) >>]
    ELSE IF msg.Err = "critical"
    THEN [pc |-> "done", route |-> NoRoute,
          trace |-> IF msg.MessageType = "CON"
                    THEN << SendStep(Out("ACK", "BadOption", msg.MessageId, "", "", "none")) >>
                    ELSE << >>]
    ELSE IF msg.Proxy # "none"
    THEN [pc |-> "done", route |-> NoRoute, trace |-> << EventStep("proxy") >>]
    ELSE IF m.err # "nil"
    THEN [pc |-> "done", route |-> NoRoute,
          trace |-> << SendStep(RouteErrorResponse(m.err, msg, TokenOf(addr))) >>]
    ELSE [pc |-> "dedup", route |-> m.route, trace |-> << >>]

\* ----------------------------------------------------------- handleMessage
\* DuplicateReply without its test of the message type.
DuplicateReply_AnyType(msg) ==
    << SendStep(Out("RST", "Empty", msg.MessageId, "", msg.Path, msg.ContentFormat)) >>

\* The reply to a message whose ID is in messageIds: a Reset to a
\* Confirmable message, nothing otherwise.
DuplicateReply(msg) ==
    IF msg.MessageType = "CON"
    THEN << SendStep(Out("RST", "Empty", msg.MessageId, "", msg.Path, msg.ContentFormat)) >>
    ELSE << >>

\* "_, dupe := s.messageIds[msg.MessageId]"
IsDuplicate(msg) == msg.MessageId \in DOMAIN messageIds

\* serveServer's loop reads a datagram and starts a goroutine, which runs
\* handleMessage up to and including its first access to shared memory,
\* the duplicate check. On a closed connection ReadFromUDP returns an
\* error and the loop starts nothing.
serveServer(t, msg, addr) ==
    LET c == Classify(msg, addr)
        dupe == c.pc = "dedup" /\ IsDuplicate(msg)
    IN
    /\ ~panicked
    /\ ~closed
    /\ tasks[t].pc = "idle"
    /\ \A u \in Tasks : u < t => tasks[u].pc # "idle"
    /\ tasks' = [tasks EXCEPT ![t] =
                    [pc |-> IF c.pc = "dedup" /\ ~dupe THEN "record" ELSE "done",
                     msg |-> msg, addr |-> addr, route |-> c.route, obsRead |-> << >>,
                     trace |-> IF dupe THEN DuplicateReply(msg) ELSE c.trace]]
    /\ UNCHANGED << messageIds, observations, heap, notifiers, sending, notified, pq, panicked, closed >>

\* The map after "m[k] = v".
MapPut(m, k, v) == [x \in DOMAIN m \cup {k} |-> IF x = k THEN v ELSE m[x]]

\* s.observations[resource], nil for a missing key.
ObservationsOf(resource) ==
    IF resource \in DOMAIN observations THEN observations[resource] ELSE << >>

hasObservation(resource, addr) ==
    \E k \in 1..Len(ObservationsOf(resource)) : heap[ObservationsOf(resource)[k]].Addr = addr

\* What the route's handler returns: NilResponse, a message that passes
\* ValidateMessage ("valid"), one that does not ("invalid").
Handler(route, msg) ==
    IF route.Path = "temp" THEN "valid"
    ELSE IF msg.Observe = "value" THEN "invalid"
    ELSE "nil"

\* "resp := route.Handler(req)" and the sending of its response: the last
\* steps of handleMessage, which touch no shared memory.
CallHandler(t) ==
    LET msg == tasks[t].msg IN
    << EventStep("handler") >> \o
    ( IF Handler(tasks[t].route, msg) = "valid"
      THEN << SendStep(Out("ACK", "Content", msg.MessageId, TokenOf(tasks[t].addr), "", "none")) >>
      ELSE << >> )

\* AutoAcknowledge with the wrong message type in its test.
AutoAcknowledge_NonConfirmable(t) ==
    IF tasks[t].msg.MessageType = "NON" /\ tasks[t].route.AutoAck
    THEN << SendStep(Out("ACK", "Empty", tasks[t].msg.MessageId, "", "", "none")) >>
    ELSE << >>

\* AutoAcknowledge without its test of the message type.
AutoAcknowledge_AnyType(t) ==
    IF tasks[t].route.AutoAck
    THEN << SendStep(Out("ACK", "Empty", tasks[t].msg.MessageId, "", "", "none")) >>
    ELSE << >>

\* The automatic acknowledgement.
AutoAcknowledge(t) ==
    IF tasks[t].msg.MessageType = "CON" /\ tasks[t].route.AutoAck
    THEN << SendStep(Out("ACK", "Empty", tasks[t].msg.MessageId, "", "", "none")) >>
    ELSE << >>

\* The request asks to observe: handleMessage looks at the Observe option
\* of Confirmable messages only.
IsObserveRequest(msg) == msg.MessageType = "CON" /\ msg.Observe = "empty"

\* "s.messageIds[msg.MessageId] = time.Now()", then the automatic
\* acknowledgement; then, for an observe request, "s.hasObservation(resource,
\* addr)", and for any other the handler.
RecordMessageId(t) ==
    LET msg == tasks[t].msg IN
    /\ ~panicked
    /\ tasks[t].pc = "record"
    /\ messageIds' = MapPut(messageIds, msg.MessageId, "new")
    /\ tasks' = IF IsObserveRequest(msg)
                THEN [tasks EXCEPT ![t].pc = IF hasObservation(msg.Path, tasks[t].addr)
                                             THEN "remove" ELSE "add",
                                   ![t].trace = @ \o AutoAcknowledge(t)]
                ELSE [tasks EXCEPT ![t].pc = "done",
                                   ![t].trace = @ \o AutoAcknowledge(t) \o CallHandler(t)]
    /\ UNCHANGED << observations, heap, notifiers, sending, notified, pq, panicked, closed >>

\* The sequence without its element at idx: append(obs[:idx], obs[idx+1:]...)
RemoveAt(s, idx) == [k \in 1..(Len(s) - 1) |-> IF k < idx THEN s[k] ELSE s[k + 1]]

\* removeObservation's result for the slice it read.
WithoutObservation(obs, addr) ==
    LET hits == {k \in 1..Len(obs) : heap[obs[k]].Addr = addr} IN
    IF hits = {} THEN obs
    ELSE RemoveAt(obs, CHOOSE k \in hits : \A j \in hits : k <= j)

\* removeObservation reads s.observations[resource], and returns if it is
\* nil ...
removeObservation_read(t) ==
    LET resource == tasks[t].msg.Path IN
    /\ ~panicked
    /\ tasks[t].pc = "remove"
    /\ tasks' = IF resource \in DOMAIN observations
                THEN [tasks EXCEPT ![t].pc = "cut", ![t].obsRead = observations[resource]]
                ELSE [tasks EXCEPT ![t].pc = "done",
                                   ![t].trace = Append(@, EventStep("cancelled")) \o CallHandler(t)]
    /\ UNCHANGED << messageIds, observations, heap, notifiers, sending, notified, pq, panicked, closed >>

\* ... and stores the slice without the peer's first Observation, if it
\* has one; then events.ObserveCancelled, the Observe option added to the
\* request, and the handler.
removeObservation(t) ==
    LET resource == tasks[t].msg.Path
        obs == tasks[t].obsRead
    IN
    /\ ~panicked
    /\ tasks[t].pc = "cut"
    /\ observations' = IF WithoutObservation(obs, tasks[t].addr) # obs
                       THEN MapPut(observations, resource, WithoutObservation(obs, tasks[t].addr))
                       ELSE observations
    /\ tasks' = [tasks EXCEPT ![t].pc = "done",
                              ![t].obsRead = << >>,
                              ![t].trace = Append(@, EventStep("cancelled")) \o CallHandler(t)]
    /\ UNCHANGED << messageIds, heap, notifiers, sending, notified, pq, panicked, closed >>

NewObservation(addr, token, resource) ==
    [Addr |-> addr, Token |-> token, Resource |-> resource, NotifyCount |-> 0]

\* addObservation reads s.observations[resource] ...
addObservation_read(t) ==
    /\ ~panicked
    /\ tasks[t].pc = "add"
    /\ tasks' = [tasks EXCEPT ![t].pc = "append",
                              ![t].obsRead = ObservationsOf(tasks[t].msg.Path)]
    /\ UNCHANGED << messageIds, observations, heap, notifiers, sending, notified, pq, panicked, closed >>

\* ... and stores the appended slice; then events.Observe, the Observe
\* option added to the request, and the handler. The new Observation is
\* object t of the heap.
addObservation(t) ==
    LET resource == tasks[t].msg.Path IN
    /\ ~panicked
    /\ tasks[t].pc = "append"
    /\ heap' = [heap EXCEPT ![t] = NewObservation(tasks[t].addr, TokenOf(tasks[t].addr), resource)]
    /\ observations' = MapPut(observations, resource, Append(tasks[t].obsRead, t))
    /\ tasks' = [tasks EXCEPT ![t].pc = "done",
                              ![t].obsRead = << >>,
                              ![t].trace = Append(@, EventStep("observe")) \o CallHandler(t)]
    /\ UNCHANGED << messageIds, notifiers, sending, notified, pq, panicked, closed >>

\* ----------------------------------------------------- handleMessageIdPurge
\* The time stamps of messageIds are read only by the purge, which compares
\* time.Since(v) with MESSAGEID_PURGE_DURATION (a count of nanoseconds); a
\* stamp is "new" until that much time has passed and "old" from then on.
Elapse ==
    /\ ~panicked
    /\ \E k \in DOMAIN messageIds : messageIds[k] = "new"
    /\ messageIds' = [k \in DOMAIN messageIds |-> "old"]
    /\ UNCHANGED << observations, heap, tasks, notifiers, sending, notified, pq, panicked, closed >>

\* Purged with its comparison inverted.
Purged_Inverted(m) == [k \in {x \in DOMAIN m : m[x] = "old"} |-> m[k]]

\* The entries the purge loop keeps.
Purged(m) == [k \in {x \in DOMAIN m : m[x] # "old"} |-> m[k]]

\* One tick of the purge ticker: every entry whose age exceeds the
\* duration is deleted.
handleMessageIdPurge ==
    /\ ~panicked
    /\ \E k \in DOMAIN messageIds : messageIds[k] = "old"
    /\ messageIds' = Purged(messageIds)
    /\ UNCHANGED << observations, heap, tasks, notifiers, sending, notified, pq, panicked, closed >>

\* ------------------------------------------------------------- NotifyChange
\* GenerateMessageId() is drawn from MsgIds. NotifyChange reads
\* c.observations[resource] once and builds ONE request for all subscribers.
NotifyChange(n, resource, confirm, mid) ==
    LET t == ObservationsOf(resource) IN
    /\ ~panicked
    /\ notifiers[n].pc = "idle"
    /\ \A u \in Notifiers : u < n => notifiers[u].pc # "idle"
    /\ notifiers' = [notifiers EXCEPT ![n] =
            [pc |-> IF Len(t) = 0 THEN "done" ELSE "token",
             resource |-> resource,
             req |-> IF resource \in DOMAIN observations
                     THEN [MessageType |-> IF confirm THEN "CON" ELSE "ACK",
                           MessageId |-> mid, Token |-> "", Uri |-> "", Observe |-> 0]
                     ELSE NoRequest,
             t |-> t, i |-> 1, tmp |-> 0, seqs |-> << >>]]
    /\ UNCHANGED << messageIds, observations, heap, tasks, sending, notified, pq, panicked, closed >>

\* The Observation of the current iteration, "r".
Current(n) == notifiers[n].t[notifiers[n].i]

\* req.SetToken(r.Token), req.SetRequestURI(r.Resource), and the read of
\* "r.NotifyCount++".
Notify_SetToken(n) ==
    /\ ~panicked
    /\ notifiers[n].pc = "token"
    /\ notifiers' = [notifiers EXCEPT ![n].pc = "increment",
                                      ![n].req.Token = heap[Current(n)].Token,
                                      ![n].req.Uri = heap[Current(n)].Resource,
                                      ![n].tmp = heap[Current(n)].NotifyCount]
    /\ UNCHANGED << messageIds, observations, heap, tasks, sending, notified, pq, panicked, closed >>

\* The value "r.NotifyCount++" stores.
Incremented(count) == count + 1

\* The write of "r.NotifyCount++".
Notify_Increment(n) ==
    /\ ~panicked
    /\ notifiers[n].pc = "increment"
    /\ heap' = [heap EXCEPT ![Current(n)].NotifyCount = Incremented(notifiers[n].tmp)]
    /\ notifiers' = [notifiers EXCEPT ![n].pc = "option"]
    /\ UNCHANGED << messageIds, observations, tasks, sending, notified, pq, panicked, closed >>

\* "req.GetMessage().AddOption(OPTION_OBSERVE, r.NotifyCount)" and
\* "go c.SendTo(req, r.Addr)": the goroutine gets the request by reference
\* and the address by value. seqs keeps the value of each iteration.
Notify_AddOption(n) ==
    LET v == heap[Current(n)].NotifyCount IN
    /\ ~panicked
    /\ notifiers[n].pc = "option"
    /\ sending' = sending \cup {[n |-> n, i |-> notifiers[n].i]}
    /\ notifiers' = [notifiers EXCEPT
            ![n].pc = IF notifiers[n].i = Len(notifiers[n].t) THEN "done" ELSE "token",
            ![n].req.Observe = v,
            ![n].seqs = Append(@, v),
            ![n].i = @ + 1]
    /\ UNCHANGED << messageIds, observations, heap, tasks, notified, pq, panicked, closed >>

\* A SendTo goroutine runs: it sends the request as it is now.
SendTo(g) ==
    /\ ~panicked
    /\ g \in sending
    /\ sending' = sending \ {g}
    /\ notified' = notified \cup
            {[n |-> g.n, i |-> g.i, to |-> heap[notifiers[g.n].t[g.i]].Addr,
              msg |-> notifiers[g.n].req]}
    /\ UNCHANGED << messageIds, observations, heap, tasks, notifiers, pq, panicked, closed >>

\* -------------------------------------------------------------------- queue
\* PriorityQueue.Push: the item is appended and given its index.
PriorityQueue_Push(mid, priority) ==
    /\ ~panicked
    /\ Len(pq) < MaxQueue
    /\ pq' = Append(pq, Item(mid, priority, Len(pq), 0))
    /\ UNCHANGED << messageIds, observations, heap, tasks, notifiers, sending, notified, panicked, closed >>

\* PriorityQueue.Pop: the last item is taken off.
PriorityQueue_Pop ==
    /\ ~panicked
    /\ Len(pq) > 0
    /\ pq' = SubSeq(pq, 1, Len(pq) - 1)
    /\ UNCHANGED << messageIds, observations, heap, tasks, notifiers, sending, notified, panicked, closed >>

\* DefaultQueue.Push and DefaultQueue.Pop call the PriorityQueue method on
\* q.priorityQueue, which NewDefaultQueue leaves nil: "len(*pq)" and
\* "old := *pq" dereference nil and the process panics. DefaultQueue.Start,
\* Stop, Clear and Send have empty bodies.
DefaultQueue_Push ==
    /\ ~panicked
    /\ panicked' = TRUE
    /\ UNCHANGED << messageIds, observations, heap, tasks, notifiers, sending, notified, pq, closed >>

\* --------------------------------------------------------------------- Stop
\* CoapServer.Stop: "s.localConn.Close()", and nothing else; the purge
\* goroutine and its ticker are left as they are.
Stop ==
    /\ ~panicked
    /\ ~closed
    /\ closed' = TRUE
    /\ UNCHANGED << messageIds, observations, heap, tasks, notifiers, sending, notified, pq,
                    panicked >>

\* ----------------------------------------------------------- specifications
\* The steps of the handleMessage goroutines after the first.
TaskStep ==
    \/ \E t \in Tasks : RecordMessageId(t)
    \/ \E t \in Tasks : removeObservation_read(t)
    \/ \E t \in Tasks : removeObservation(t)
    \/ \E t \in Tasks : addObservation_read(t)
    \/ \E t \in Tasks : addObservation(t)

\* The steps of NotifyChange after the first, and of its goroutines.
NotifyStep ==
    \/ \E n \in Notifiers : Notify_SetToken(n)
    \/ \E n \in Notifiers : Notify_Increment(n)
    \/ \E n \in Notifiers : Notify_AddOption(n)
    \/ \E g \in sending : SendTo(g)

\* The dispatcher: every kind of datagram, the purge.
Next ==
    \/ \E t \in 1..MaxTasks, d \in Datagrams : serveServer(t, d.msg, d.addr)
    \/ TaskStep
    \/ Elapse
    \/ handleMessageIdPurge

Spec == Init /\ [][Next]_vars

\* The observation registry and NotifyChange: observe requests of the peers
\* on "temp", and notifications.
ObserveDatagrams ==
    { From(a, Msg("CON", "GET", m, "temp", "none", "empty", "none", "nil")) :
        a \in Peers, m \in MsgIds }

NextNotify ==
    \/ \E t \in 1..MaxTasks, d \in ObserveDatagrams : serveServer(t, d.msg, d.addr)
    \/ TaskStep
    \/ \E n \in Notifiers, confirm \in BOOLEAN, mid \in MsgIds :
            NotifyChange(n, "temp", confirm, mid)
    \/ NotifyStep

SpecNotify == Init /\ [][NextNotify]_vars

\* The delivery queue: pushes and pops, and the datagrams that answer a
\* delivery (Acknowledgements, Resets) beside one plain request.
QueueDatagrams ==
    ReplyDatagrams \cup { From("A", Msg("CON", "GET", 1, "temp", "none", "absent", "none", "nil")) }

NextQueue ==
    \/ \E mid \in MsgIds, p \in Priorities : PriorityQueue_Push(mid, p)
    \/ PriorityQueue_Pop
    \/ DefaultQueue_Push
    \/ \E t \in 1..MaxTasks, d \in QueueDatagrams : serveServer(t, d.msg, d.addr)
    \/ \E t \in Tasks : RecordMessageId(t)
    \/ Elapse
    \/ handleMessageIdPurge

SpecQueue == Init /\ [][NextQueue]_vars

\* The dispatcher within one period of the purge ticker: no purge runs.
NextNoPurge ==
    \/ \E t \in 1..MaxTasks, d \in RoutedDatagrams : serveServer(t, d.msg, d.addr)
    \/ TaskStep

SpecNoPurge == Init /\ [][NextNoPurge]_vars

\* The Go scheduler runs every goroutine that can run: the handleMessage
\* goroutines and the purge ticker. Nothing schedules the application's
\* calls or the arrival of datagrams.
FairSpecQueue ==
    /\ Init /\ [][NextQueue]_vars
    /\ WF_vars(\E t \in Tasks : RecordMessageId(t))
    /\ WF_vars(handleMessageIdPurge)

\* The dispatcher and a call of Stop.
NextStop ==
    \/ Next
    \/ Stop

SpecStop == Init /\ [][NextStop]_vars

\* The observation registry alone: observe requests of the peers on both
\* resources, and the purge that lets a message ID be used again.
RegistryDatagrams ==
    ObserveDatagrams \cup { From("B", Msg("CON", "GET", 1, "log", "none", "empty", "none", "nil")) }

NextRegistry ==
    \/ \E t \in 1..MaxObservers, d \in RegistryDatagrams : serveServer(t, d.msg, d.addr)
    \/ TaskStep
    \/ Elapse
    \/ handleMessageIdPurge

SpecRegistry == Init /\ [][NextRegistry]_vars

\* The duplicate table and its purge: plain requests of both peers.
PurgeDatagrams ==
    { From(a, Msg("CON", "GET", m, "temp", "none", "absent", "none", "nil")) :
        a \in Peers, m \in MsgIds }

NextPurge ==
    \/ \E t \in 1..MaxTasks, d \in PurgeDatagrams : serveServer(t, d.msg, d.addr)
    \/ \E t \in Tasks : RecordMessageId(t)
    \/ Elapse
    \/ handleMessageIdPurge

\* Time passes, the ticker of handleMessageIdPurge fires, and the Go
\* scheduler runs every goroutine that can run.
FairSpecPurge ==
    /\ Init /\ [][NextPurge]_vars
    /\ WF_vars(\E t \in Tasks : RecordMessageId(t))
    /\ WF_vars(Elapse)
    /\ WF_vars(handleMessageIdPurge)

\* ------------------------------------------------------------------ claims
\* What a handleMessage goroutine has done.
Sent(t) == SelectSeq(tasks[t].trace, LAMBDA e : e.kind = "send")
HandlerCalled(t) == \E k \in 1..Len(tasks[t].trace) : tasks[t].trace[k].kind = "handler"

\* Task t is started in this step.
Dispatched(t) == tasks[t].pc = "idle" /\ tasks'[t].pc # "idle"

\* A request that reaches the duplicate check: a method code supported, no
\* unknown critical option, not a proxy request, a route matched.
Routable(msg) ==
    /\ msg.MessageType \in {"CON", "NON"}
    /\ SupportedMethod(msg.Code)
    /\ msg.Err = "nil"
    /\ msg.Proxy = "none"
    /\ MatchingRoute(msg.Path, msg.Code, msg.ContentFormat).err = "nil"

IsReset(m, mid) == m.MessageType = "RST" /\ m.MessageId = mid

\* The outcome C1 states for a message whose ID is recorded: the goroutine
\* ends, a Confirmable message has got exactly a Reset, a Non-confirmable
\* one nothing, and no handler was called.
DuplicateOutcome(t) ==
    /\ tasks'[t].pc = "done"
    /\ ~HandlerCalled(t)'
    /\ tasks'[t].msg.MessageType = "CON" =>
            Len(Sent(t)') = 1 /\ IsReset(Sent(t)'[1].msg, tasks'[t].msg.MessageId)
    /\ tasks'[t].msg.MessageType = "NON" => Sent(t)' = << >>

\* C1 as stated: every Confirmable or Non-confirmable message whose ID is
\* in messageIds when it is dispatched gets the duplicate outcome.
C1_AnyMessageWithSeenId ==
    [][\A t \in Tasks :
        ( /\ Dispatched(t)
          /\ tasks'[t].msg.MessageType \in {"CON", "NON"}
          /\ tasks'[t].msg.MessageId \in DOMAIN messageIds )
        => DuplicateOutcome(t)]_vars

\* C1 amended: a message that matches a route (supported method code, no
\* unknown critical option, not a proxy request) and whose ID is in
\* messageIds when it is dispatched gets a Reset if Confirmable and nothing
\* if Non-confirmable, and no handler is called.
C1_RoutableMessageWithSeenId ==
    [][\A t \in Tasks :
        ( /\ Dispatched(t)
          /\ Routable(tasks'[t].msg)
          /\ tasks'[t].msg.MessageId \in DOMAIN messageIds )
        => DuplicateOutcome(t)]_vars

\* C1 witness: a request was handled and recorded, and a later Confirmable
\* request with the same ID was answered with a Reset.
C1_Witness ==
    \E t, u \in Tasks :
        /\ u < t /\ tasks[u].msg.MessageId = tasks[t].msg.MessageId
        /\ HandlerCalled(u)
        /\ tasks[t].pc = "done" /\ tasks[t].msg.MessageType = "CON"
        /\ Routable(tasks[t].msg)
        /\ tasks[t].msg.MessageId \in DOMAIN messageIds
        /\ Len(Sent(t)) = 1 /\ Sent(t)[1].msg.MessageType = "RST"

\* C3: the registry holds at most one Observation per (resource, peer).
C3_OneObservationPerPeer ==
    \A r \in DOMAIN observations :
        \A i, j \in 1..Len(observations[r]) :
            i # j => heap[observations[r][i]].Addr # heap[observations[r][j]].Addr

\* A Confirmable GET on a path no route has.
IsNotFoundRequest(msg) ==
    /\ msg.MessageType = "CON" /\ msg.Code = "GET"
    /\ msg.Err = "nil" /\ msg.Proxy = "none"
    /\ MatchingRoute(msg.Path, msg.Code, msg.ContentFormat).err = "ERR_NO_MATCHING_ROUTE"

\* The answer C5 states: exactly one message, an Acknowledgement "not
\* found" with the request's path option, and no handler called.
NotFoundOutcome(t) ==
    /\ tasks'[t].pc = "done"
    /\ ~HandlerCalled(t)'
    /\ Len(Sent(t)') = 1
    /\ Sent(t)'[1].msg.MessageType = "ACK"
    /\ Sent(t)'[1].msg.Code = "NotFound"
    /\ Sent(t)'[1].msg.Path = tasks'[t].msg.Path

\* C5 as stated: the not-found answer, and an entry for the message ID in
\* messageIds afterwards.
C5_NotFoundRecordsId ==
    [][\A t \in Tasks :
        (Dispatched(t) /\ IsNotFoundRequest(tasks'[t].msg))
        => (NotFoundOutcome(t) /\ tasks'[t].msg.MessageId \in DOMAIN messageIds')]_vars

\* C5 amended: a Confirmable GET whose path matches no route is answered
\* with an Acknowledgement "not found" that echoes the request's path
\* option, no handler is called, and messageIds is left as it was: no
\* entry is recorded for the message ID.
C5_NotFoundLeavesIds ==
    [][\A t \in Tasks :
        (Dispatched(t) /\ IsNotFoundRequest(tasks'[t].msg))
        => (NotFoundOutcome(t) /\ messageIds' = messageIds)]_vars

\* C5 witness: a not-found answer was sent and the ID of that request is
\* not in messageIds.
C5_Witness ==
    \E t \in Tasks :
        /\ tasks[t].pc = "done" /\ IsNotFoundRequest(tasks[t].msg)
        /\ Len(Sent(t)) = 1 /\ Sent(t)[1].msg.Code = "NotFound"
        /\ Sent(t)[1].msg.Path = "none"
        /\ tasks[t].msg.MessageId \notin DOMAIN messageIds

\* C6: addObservation for a (resource, peer) that has an Observation
\* leaves the registry and the Observations as they were.
C6_RegisterExistingIsNoOp ==
    [][\A t \in Tasks :
        ( /\ tasks[t].pc = "append" /\ tasks'[t].pc = "done"
          /\ hasObservation(tasks[t].msg.Path, tasks[t].addr) )
        => UNCHANGED << observations, heap >>]_vars

\* C7: with no purge running, the handler is called for at most one of
\* the messages that carry one message ID.
C7_OneHandlerPerMessageId ==
    \A t, u \in Tasks :
        (t # u /\ HandlerCalled(t) /\ HandlerCalled(u))
        => tasks[t].msg.MessageId # tasks[u].msg.MessageId

\* The notifications NotifyChange call n has put on the wire.
NotifiedBy(n) == {x \in notified : x.n = n}
Finished(n) == notifiers[n].pc = "done" /\ \A g \in sending : g.n # n

\* C2: a finished NotifyChange call on a resource with k Observations has
\* sent k messages, and the message sent for an Observation carries that
\* Observation's token and the sequence number given to it in that call.
C2_OneMessagePerSubscriber ==
    \A n \in Notifiers :
        /\ \A x \in NotifiedBy(n) :
                /\ x.msg.Token = heap[notifiers[n].t[x.i]].Token
                /\ x.msg.Observe = notifiers[n].seqs[x.i]
        /\ Finished(n) => Cardinality(NotifiedBy(n)) = Len(notifiers[n].t)

\* The sequence numbers given out so far: call n, iteration i.
Numbered == {ni \in Notifiers \X Tasks : ni[2] <= Len(notifiers[ni[1]].seqs)}

\* C8: for one Observation, a later NotifyChange call gives a greater
\* sequence number than an earlier one (the calls are issued in the order
\* of their numbers).
C8_SequenceIncreases ==
    \A x, y \in Numbered :
        ( /\ x[1] < y[1]
          /\ notifiers[x[1]].t[x[2]] = notifiers[y[1]].t[y[2]] )
        => notifiers[x[1]].seqs[x[2]] < notifiers[y[1]].seqs[y[2]]

\* C9: once a NotifyChange call with confirm = true has dispatched a
\* notification, the delivery queue holds an item for its message.
C9_ConfirmableIsEnqueued ==
    \A n \in Notifiers :
        (notifiers[n].req.MessageType = "CON" /\ notifiers[n].seqs # << >>)
        => \E k \in 1..Len(pq) : pq[k].value = notifiers[n].req.MessageId

\* C4: an item of the delivery queue that nobody acknowledges is retried
\* and at last removed with a timeout: it does not stay in the queue
\* untried for ever.
C4_ItemRetriedThenTimedOut ==
    \A k \in 1..MaxQueue :
        [](Len(pq) >= k => <>(Len(pq) < k \/ pq[k].retries > 0))

\* C10: a Reset whose message ID is that of an item of the delivery queue
\* removes the item, and sends nothing and calls no handler; a Reset that
\* matches no item changes nothing.
C10_ResetCancelsDelivery ==
    [][\A t \in Tasks :
        (Dispatched(t) /\ tasks'[t].msg.MessageType = "RST")
        => /\ tasks'[t].trace = << >>
           /\ \A k \in 1..Len(pq') : pq'[k].value # tasks'[t].msg.MessageId
           /\ (\A k \in 1..Len(pq) : pq[k].value # tasks'[t].msg.MessageId) => pq' = pq]_vars

\* The kinds of the steps of goroutine t, in order.
TraceKinds(t) == [k \in 1..Len(tasks[t].trace) |-> tasks[t].trace[k].kind]

\* Goroutine t has finished a request that matched a route and was not
\* answered as a duplicate.
HandledRequest(t) ==
    /\ tasks[t].pc = "done"
    /\ Routable(tasks[t].msg)
    /\ tasks[t].trace # DuplicateReply(tasks[t].msg)

\* A Confirmable request with a valueless Observe option on a route that
\* acknowledges automatically, handled to its end.
ObserveOnAutoAck(t) ==
    /\ HandledRequest(t)
    /\ tasks[t].msg.MessageType = "CON"
    /\ tasks[t].msg.Observe = "empty"
    /\ tasks[t].route.AutoAck

IsBareAck(m, mid) == m.MessageType = "ACK" /\ m.Code = "Empty" /\ m.MessageId = mid

\* The first step of t is the bare Acknowledgement and its last the
\* handler's response, with the request's token.
AckFirstResponseLast(t) ==
    /\ Len(tasks[t].trace) = 4
    /\ IsBareAck(tasks[t].trace[1].msg, tasks[t].msg.MessageId)
    /\ tasks[t].trace[4].msg.Code = "Content"
    /\ tasks[t].trace[4].msg.Token = TokenOf(tasks[t].addr)

\* C11 as stated: such a request is acknowledged, then its Observation is
\* registered, then the handler is called, then the handler's response is
\* sent, in this order.
C11_AckRegisterHandlerResponse ==
    \A t \in Tasks :
        ObserveOnAutoAck(t)
        => /\ TraceKinds(t) = << "send", "observe", "handler", "send" >>
           /\ AckFirstResponseLast(t)

\* C11 amended: such a request is acknowledged, then its Observation is
\* registered or, if the peer had one on the resource, cancelled, then the
\* handler is called, then the handler's response is sent, in this order;
\* a goroutine still running has sent the bare Acknowledgement before
\* anything else.
C11_AckObserveHandlerResponse ==
    \A t \in Tasks :
        /\ ObserveOnAutoAck(t)
            => /\ TraceKinds(t) \in { << "send", "observe", "handler", "send" >>,
                                      << "send", "cancelled", "handler", "send" >> }
               /\ AckFirstResponseLast(t)
        /\ ( /\ tasks[t].pc \in {"add", "append", "remove", "cut"}
             /\ tasks[t].route.AutoAck )
            => /\ Len(tasks[t].trace) = 1
               /\ IsBareAck(tasks[t].trace[1].msg, tasks[t].msg.MessageId)

\* C11 witness: one such request was acknowledged, registered and answered,
\* and a later one of the same peer acknowledged, cancelled and answered.
C11_Witness ==
    \E t, u \in Tasks :
        /\ ObserveOnAutoAck(t) /\ ObserveOnAutoAck(u)
        /\ TraceKinds(t) = << "send", "observe", "handler", "send" >>
        /\ TraceKinds(u) = << "send", "cancelled", "handler", "send" >>
        /\ AckFirstResponseLast(t) /\ AckFirstResponseLast(u)

\* C12 as stated: the dispatch of one datagram sends at most one message.
C12_AtMostOneOutbound ==
    \A t \in Tasks : Len(Sent(t)) <= 1

\* C12 amended: the dispatch of one datagram sends at most one message,
\* but for a Confirmable request, not a duplicate, on a route that
\* acknowledges automatically: that one is sent the bare Acknowledgement
\* and then at most the handler's response, two messages.
C12_AtMostAckAndResponse ==
    \A t \in Tasks :
        /\ Len(Sent(t)) <= 2
        /\ Len(Sent(t)) = 2
            => /\ HandledRequest(t)
               /\ tasks[t].msg.MessageType = "CON"
               /\ tasks[t].route.AutoAck
               /\ IsBareAck(Sent(t)[1].msg, tasks[t].msg.MessageId)
               /\ Sent(t)[2].msg.Code = "Content"

\* C12 witness: one datagram was answered with two messages, another with
\* at most one.
C12_Witness ==
    \E t, u \in Tasks :
        /\ tasks[t].pc = "done" /\ Len(Sent(t)) = 2
        /\ IsBareAck(Sent(t)[1].msg, tasks[t].msg.MessageId)
        /\ tasks[u].pc = "done" /\ Len(Sent(u)) <= 1

\* The response codes of handleMessage's error branches.
ErrorCodes == {"NotImplemented", "NotFound", "MethodNotAllowed", "UnsupportedContentFormat"}

\* C13: every error response (not implemented, not found, method not
\* allowed, unsupported content format) carries the token of the request
\* it answers.
C13_ErrorResponseEchoesToken ==
    \A t \in Tasks :
        \A k \in 1..Len(Sent(t)) :
            Sent(t)[k].msg.Code \in ErrorCodes
            => Sent(t)[k].msg.Token = TokenOf(tasks[t].addr)

\* C14: once Stop has returned, the purge task runs no more (no entry
\* leaves messageIds) and the receive loop starts no new handleMessage
\* goroutine; goroutines already started may go on.
C14_StopHaltsBackgroundTasks ==
    [][closed
        => /\ DOMAIN messageIds \subseteq DOMAIN messageIds'
           /\ \A t \in Tasks : tasks[t].pc = "idle" => tasks'[t].pc = "idle"]_vars

\* Goroutine u has written its message ID to messageIds.
Recorded(u) ==
    /\ Routable(tasks[u].msg)
    /\ tasks[u].pc \notin {"idle", "record"}
    /\ tasks[u].trace # DuplicateReply(tasks[u].msg)

\* C15: a request is answered as a duplicate only if a message with the
\* same ID from the same peer was recorded before; an ID recorded from
\* another peer does not make it one.
C15_DuplicateOnlyOfSamePeer ==
    [][\A t \in Tasks :
        ( /\ Dispatched(t)
          /\ Routable(tasks'[t].msg)
          /\ tasks'[t].pc = "done" )
        => \E u \in Tasks :
              /\ Recorded(u)
              /\ tasks[u].addr = tasks'[t].addr
              /\ tasks[u].msg.MessageId = tasks'[t].msg.MessageId]_vars

\* C16: every entry of messageIds is removed at last, and a request whose
\* ID has no entry when it is dispatched is handled as a new message.
C16_EntryRemovedThenNew ==
    /\ \A m \in MsgIds : [](m \in DOMAIN messageIds => <>(m \notin DOMAIN messageIds))
    /\ [][\A t \in Tasks :
            ( /\ Dispatched(t)
              /\ Routable(tasks'[t].msg)
              /\ tasks'[t].msg.MessageId \notin DOMAIN messageIds )
            => tasks'[t].pc = "record"]_vars

\* C16 witness: a request was recorded, its entry has been purged, and a
\* later request with the same message ID is being handled as new.
C16_Witness ==
    \E t, u \in Tasks :
        /\ u < t
        /\ Recorded(u) /\ tasks[u].pc = "done"
        /\ tasks[t].msg.MessageId = tasks[u].msg.MessageId
        /\ tasks[u].msg.MessageId \notin DOMAIN messageIds
        /\ tasks[t].pc = "record"

\* C17: every request that matched a route, was not a duplicate and
\* carries a valueless Observe option, Confirmable or Non-confirmable, has
\* registered an Observation or cancelled one by the time it is handled.
C17_ObserveRequestOfAnyType ==
    \A t \in Tasks :
        ( /\ HandledRequest(t)
          /\ tasks[t].msg.MessageType \in {"CON", "NON"}
          /\ tasks[t].msg.Observe = "empty" )
        => \E k \in 1..Len(tasks[t].trace) : tasks[t].trace[k].kind \in {"observe", "cancelled"}

\* C18: the item a Pop takes off the delivery queue has the greatest
\* priority of the items pushed and not yet popped, and among those of
\* that priority it is the one pushed first.
C18_PopReturnsMaxPriority ==
    [][Len(pq') = Len(pq) - 1
        => \A k \in 1..Len(pq) :
              /\ pq[Len(pq)].priority >= pq[k].priority
              /\ pq[Len(pq)].priority = pq[k].priority => k = Len(pq)]_vars

\* The Observations of a slice that are not the peer's.
ObservationsOfOthers(obs, addr) == SelectSeq(obs, LAMBDA o : heap[o].Addr # addr)

\* C19: when removeObservation(resource, peer) stores its result, the
\* peer's Observation on the resource is gone, and the Observations of the
\* other peers on it, those on the other resources, and every token and
\* counter are as they were.
C19_CancelRemovesOnlyItsObservation ==
    [][\A t \in Tasks :
        (tasks[t].pc = "cut" /\ tasks'[t].pc = "done")
        => /\ heap' = heap
           /\ DOMAIN observations' = DOMAIN observations
           /\ \A r \in DOMAIN observations :
                IF r = tasks[t].msg.Path
                THEN /\ ObservationsOfOthers(observations'[r], tasks[t].addr)
                            = ObservationsOfOthers(observations[r], tasks[t].addr)
                     /\ Len(observations'[r]) >= Len(observations[r]) - 1
                ELSE observations'[r] = observations[r]]_vars

\* C20: the Confirmable notifications one NotifyChange call has sent to
\* different subscribers have different message IDs.
C20_DistinctIdPerSubscriber ==
    \A x, y \in notified :
        ( /\ x.n = y.n
          /\ x.to # y.to
          /\ x.msg.MessageType = "CON" /\ y.msg.MessageType = "CON" )
        => x.msg.MessageId # y.msg.MessageId

====
